---- MODULE Spec2Model ----
(***************************************************************************)
(* LGraphGroup (src/src/LGraphGroup.ts): the rectangular, labelled region  *)
(* that clusters nodes of a graph.  The model covers the geometry buffer,  *)
(* the cached member list, the flags object with its pin flag, move,       *)
(* resize, recomputeInsideNodes, addNodes, serialize and configure.        *)
(*                                                                         *)
(* Numbers.  Every length is an integer count of TENTHS of a graph unit    *)
(* (140 units is 1400), so that titleHeight = font_size * 1.4 and the      *)
(* half-unit ties of Math.round are representable.  font_size is kept in   *)
(* whole units.  The rounding of a Float32Array store to single precision  *)
(* is far below a tenth for the magnitudes used and is not modelled.       *)
(* JavaScript's Infinity is the sentinel Infinity below, with the IEEE     *)
(* rules for sums, comparisons and Math.round on it.                       *)
(***************************************************************************)
EXTENDS Integers, Sequences, FiniteSets, TLC

\* ---------------------------------------------------------------- bounds
MaxSteps == 3

\* ------------------------------------------------------------- constants
MIN_WIDTH == 1400
MIN_HEIGHT == 800
\* LiteGraph.NODE_TITLE_HEIGHT, read by addNodes; no claim depends on its value
NODE_TITLE_HEIGHT == 300
DEFAULT_GROUP_FONT == 24
Infinity == 1000000000

\* ------------------------------------------------------------ arithmetic
\* IEEE addition on the extended numbers (opposite infinities never meet:
\* every operand that is not a running bound of addNodes is finite or +Inf).
Plus(a, b) ==
    IF a = Infinity \/ b = Infinity THEN Infinity
    ELSE IF a = -Infinity \/ b = -Infinity THEN -Infinity
    ELSE a + b

Minus(a, b) == Plus(a, -b)

MathMin(a, b) == IF a < b THEN a ELSE b

MathMax(a, b) == IF a > b THEN a ELSE b

\* Math.round: nearest integer, ties towards +Infinity; in tenths.
MathRound(v) ==
    IF v = Infinity \/ v = -Infinity THEN v ELSE ((v + 5) \div 10) * 10

\* ----------------------------------------------------------------- state
Groups == {1, 2}
NodeIds == {1, 2}

\* graph._nodes: the owning graph's node list, in graph order
graph_nodes == <<2, 1>>

VARIABLES
    group,   \* per group: title, color, font_size, _bounding, _nodes, flags (a reference)
    flags,   \* the flags objects: reference -> whether the key "pinned" is present
    node,    \* per node: pos, size, type, collapsed, _collapsed_width
    rec,     \* the records returned by serialize and still held by the caller
    last,    \* the call made last: its name, its group, its arguments
    prev,    \* the state in which that call was made
    steps    \* number of calls made

vars == <<group, flags, node, rec, last, prev, steps>>

\* new LGraphGroup(title); flagsRef names the fresh object of `this.flags = {}`
ctor(title, flagsRef) ==
    [ title     |-> IF title = "" THEN "Group" ELSE title,
      font_size |-> DEFAULT_GROUP_FONT,
      color     |-> "#3f789e",
      bounding  |-> <<100, 100, 1400, 800>>,
      nodes     |-> <<>>,
      flags     |-> flagsRef ]

\* the nodes of the owning graph
InitNodes ==
    [ n \in NodeIds |->
        IF n = 1
        THEN [ pos |-> <<1000, 1000>>, size |-> <<800, 400>>, type |-> "basic/sum",
               collapsed |-> FALSE, collapsed_width |-> 0 ]
        ELSE [ pos |-> <<200, 205>>, size |-> <<500, 300>>, type |-> "Reroute",
               collapsed |-> TRUE, collapsed_width |-> 605 ] ]

\* a record as read from a saved file: bounding not rounded, font_size 0,
\* no flags field (NoFlags)
NoFlags == 0

FileRecord ==
    [ title |-> "Saved", bounding |-> <<-205, 300, 1000, 605>>, color |-> "#A88",
      font_size |-> 0, flags |-> NoFlags ]

NoCall == [ op |-> "new", g |-> 0, arg |-> <<>> ]

Init ==
    /\ group = [ g \in Groups |-> ctor(IF g = 1 THEN "" ELSE "Inputs", g) ]
    /\ flags = [ f \in Groups |-> FALSE ]
    /\ node = InitNodes
    /\ rec = <<>>
    /\ last = NoCall
    /\ prev = [ group |-> group, flags |-> flags, node |-> node, rec |-> rec, last |-> NoCall ]
    /\ steps = 0

\* bookkeeping of one call
Call(op, g, arg) ==
    /\ steps < MaxSteps
    /\ steps' = steps + 1
    /\ last' = [ op |-> op, g |-> g, arg |-> arg ]
    /\ prev' = [ group |-> group, flags |-> flags, node |-> node, rec |-> rec, last |-> last ]

\* ------------------------------------------------------------- accessors
\* the title bar taken as high as the font
titleHeight_fontOnly(gr) == gr.font_size * 10

\* get titleHeight
titleHeight(gr) == gr.font_size * 14

\* get pinned, on a given heap of flags objects
pinnedIn(gs, fs, g) == fs[gs[g].flags]

pinned(g) == pinnedIn(group, flags, g)

\* set pos(v)
setPos(b, v) ==
    IF Len(v) < 2 THEN b ELSE <<v[1], v[2], b[3], b[4]>>

\* the size setter storing what it is given
setSize_unclamped(b, v) ==
    IF Len(v) < 2 THEN b ELSE <<b[1], b[2], v[1], v[2]>>

\* set size(v)
setSize(b, v) ==
    IF Len(v) < 2 THEN b
    ELSE <<b[1], b[2], MathMax(MIN_WIDTH, v[1]), MathMax(MIN_HEIGHT, v[2])>>

\* ------------------------------------------------------------ pin, unpin
pin(g) ==
    /\ Call("pin", g, <<>>)
    /\ flags' = [ flags EXCEPT ![group[g].flags] = TRUE ]
    /\ UNCHANGED <<group, node, rec>>

unpin(g) ==
    /\ Call("unpin", g, <<>>)
    /\ flags' = [ flags EXCEPT ![group[g].flags] = FALSE ]
    /\ UNCHANGED <<group, node, rec>>

\* ---------------------------------------------------------------- resize
\* resize going through the clamp of the size setter
resizeBounding_clamped(b, isPinned, width, height) ==
    IF isPinned THEN b
    ELSE <<b[1], b[2], MathMax(MIN_WIDTH, width), MathMax(MIN_HEIGHT, height)>>

resizeBounding(b, isPinned, width, height) ==
    IF isPinned THEN b ELSE <<b[1], b[2], width, height>>

resize(g, width, height) ==
    /\ Call("resize", g, <<width, height>>)
    /\ group' = [ group EXCEPT ![g].bounding = resizeBounding(@, pinned(g), width, height) ]
    /\ UNCHANGED <<flags, node, rec>>

\* ------------------------------------------------------------------ move
\* move without its pin guard
moveBounding_unguarded(b, isPinned, deltax, deltay) ==
    <<Plus(b[1], deltax), Plus(b[2], deltay), b[3], b[4]>>

moveBounding(b, isPinned, deltax, deltay) ==
    IF isPinned THEN b ELSE <<Plus(b[1], deltax), Plus(b[2], deltay), b[3], b[4]>>

RECURSIVE moveNodes(_, _, _, _)
\* the loop over this._nodes
moveNodes(ns, members, deltax, deltay) ==
    IF members = <<>> THEN ns
    ELSE LET n == Head(members)
             moved == [ ns EXCEPT ![n].pos = <<@[1] + deltax, @[2] + deltay>> ]
         IN  moveNodes(moved, Tail(members), deltax, deltay)

\* move dragging every node of the graph instead of the cached members
moveMembers_wholeGraph(ns, members, isPinned, deltax, deltay, ignore_nodes) ==
    IF isPinned \/ ignore_nodes THEN ns ELSE moveNodes(ns, graph_nodes, deltax, deltay)

moveMembers(ns, members, isPinned, deltax, deltay, ignore_nodes) ==
    IF isPinned \/ ignore_nodes THEN ns ELSE moveNodes(ns, members, deltax, deltay)

move(g, deltax, deltay, ignore_nodes) ==
    /\ Call("move", g, <<deltax, deltay, ignore_nodes>>)
    /\ group' = [ group EXCEPT ![g].bounding = moveBounding(@, pinned(g), deltax, deltay) ]
    /\ node' = moveMembers(node, group[g].nodes, pinned(g), deltax, deltay, ignore_nodes)
    /\ UNCHANGED <<flags, rec>>

\* -------------------------------------------------- recomputeInsideNodes
\* node.getBounding(out): the rectangle of the node's position and size
getBounding(n) == <<n.pos[1], n.pos[2], n.size[1], n.size[2]>>

\* overlapBounding(a, b): the two rectangles share a region of positive area
overlapBounding(a, b) ==
    /\ MathMin(Plus(a[1], a[3]), Plus(b[1], b[3])) > MathMax(a[1], b[1])
    /\ MathMin(Plus(a[2], a[4]), Plus(b[2], b[4])) > MathMax(a[2], b[2])

RECURSIVE insideNodes(_, _, _, _)
\* the loop over this.graph._nodes, pushing onto this._nodes
insideNodes(out, rest, b, ns) ==
    IF rest = <<>> THEN out
    ELSE LET n == Head(rest)
         IN  IF ~overlapBounding(b, getBounding(ns[n]))
             THEN insideNodes(out, Tail(rest), b, ns)
             ELSE insideNodes(Append(out, n), Tail(rest), b, ns)

\* the recomputation without clearing the list first
recomputedNodes_merging(old, b, ns) == insideNodes(old, graph_nodes, b, ns)

\* `this._nodes.length = 0`, then the loop
recomputedNodes(old, b, ns) == insideNodes(<<>>, graph_nodes, b, ns)

recomputeInsideNodes(g) ==
    /\ Call("recomputeInsideNodes", g, <<>>)
    /\ group' = [ group EXCEPT ![g].nodes = recomputedNodes(@, group[g].bounding, node) ]
    /\ UNCHANGED <<flags, node, rec>>

\* -------------------------------------------------------------- addNodes
\* `!this._nodes`: _nodes is always an array, and an array, even an empty
\* one, is truthy
nodesMissing(gr) == FALSE

\* the reducer taking a collapsed node at its nominal height
nodeEdges_nominalHeight(n) ==
    LET x == n.pos[1]
        y == n.pos[2]
        top == y - (IF n.type = "Reroute" THEN 0 ELSE NODE_TITLE_HEIGHT)
        right == IF n.collapsed /\ n.collapsed_width # 0
                 THEN x + MathRound(n.collapsed_width) ELSE x + n.size[1]
    IN  [ left |-> x, top |-> top, right |-> right, bottom |-> y + n.size[2] ]

\* the edges the reducer computes for one node
nodeEdges(n) ==
    LET x == n.pos[1]
        y == n.pos[2]
        width == n.size[1]
        height == n.size[2]
        isReroute == n.type = "Reroute"
        isCollapsed == n.collapsed
        top == y - (IF isReroute THEN 0 ELSE NODE_TITLE_HEIGHT)
        bottom == IF isCollapsed THEN top + NODE_TITLE_HEIGHT ELSE y + height
        right == IF isCollapsed /\ n.collapsed_width # 0
                 THEN x + MathRound(n.collapsed_width) ELSE x + width
    IN  [ left |-> x, top |-> top, right |-> right, bottom |-> bottom ]

RECURSIVE reduceBounds(_, _, _)
\* allNodes.reduce(...)
reduceBounds(allNodes, ns, acc) ==
    IF allNodes = <<>> THEN acc
    ELSE LET e == nodeEdges(ns[Head(allNodes)])
         IN  reduceBounds(Tail(allNodes), ns,
                 [ left   |-> MathMin(acc.left, e.left),
                   top    |-> MathMin(acc.top, e.top),
                   right  |-> MathMax(acc.right, e.right),
                   bottom |-> MathMax(acc.bottom, e.bottom) ])

addNodesBounding(gr, ns, nodes, padding) ==
    IF nodesMissing(gr) /\ Len(nodes) = 0 THEN gr.bounding
    ELSE LET allNodes == gr.nodes \o nodes
             bounds == reduceBounds(allNodes, ns,
                           [ left |-> Infinity, top |-> Infinity,
                             right |-> -Infinity, bottom |-> -Infinity ])
             placed == setPos(gr.bounding,
                           << Minus(bounds.left, padding),
                              Minus(Minus(bounds.top, padding), titleHeight(gr)) >>)
         IN  setSize(placed,
                 << Plus(Minus(bounds.right, bounds.left), padding * 2),
                    Plus(Plus(Minus(bounds.bottom, bounds.top), padding * 2), titleHeight(gr)) >>)

addNodes(g, nodes, padding) ==
    /\ Call("addNodes", g, <<nodes, padding>>)
    /\ group' = [ group EXCEPT ![g].bounding = addNodesBounding(group[g], node, nodes, padding) ]
    /\ UNCHANGED <<flags, node, rec>>

\* ------------------------------------------------- assignment to g.size
assignSize(g, v) ==
    /\ Call("size", g, v)
    /\ group' = [ group EXCEPT ![g].bounding = setSize(@, v) ]
    /\ UNCHANGED <<flags, node, rec>>

\* --------------------------------------------------- serialize, configure
\* serialize without rounding the bounding values
serialized_unrounded(gr) ==
    [ title |-> gr.title, bounding |-> gr.bounding, color |-> gr.color,
      font_size |-> gr.font_size, flags |-> gr.flags ]

serialized(gr) ==
    [ title     |-> gr.title,
      bounding  |-> << MathRound(gr.bounding[1]), MathRound(gr.bounding[2]),
                       MathRound(gr.bounding[3]), MathRound(gr.bounding[4]) >>,
      color     |-> gr.color,
      font_size |-> gr.font_size,
      flags     |-> gr.flags ]

serialize(g) ==
    /\ Call("serialize", g, <<>>)
    /\ rec' = << serialized(group[g]) >>
    /\ UNCHANGED <<group, flags, node>>

configured(gr, o) ==
    [ gr EXCEPT !.title = o.title,
                !.bounding = o.bounding,
                !.color = o.color,
                !.flags = IF o.flags # NoFlags THEN o.flags ELSE @,
                !.font_size = IF o.font_size # 0 THEN o.font_size ELSE @ ]

\* the records a caller can pass to configure
Records == { FileRecord } \cup { rec[i] : i \in DOMAIN rec }

configure(g, o) ==
    /\ Call("configure", g, <<o>>)
    /\ group' = [ group EXCEPT ![g] = configured(@, o) ]
    /\ UNCHANGED <<flags, node, rec>>

\* ------------------------------------------------ the editor's other acts
\* the property editor of the group's menu writes title, color or font_size
setProperty(g, property, value) ==
    /\ Call("setProperty", g, <<property, value>>)
    /\ group' = [ group EXCEPT ![g] =
                    IF property = "title" THEN [ @ EXCEPT !.title = value ]
                    ELSE IF property = "color" THEN [ @ EXCEPT !.color = value ]
                    ELSE [ @ EXCEPT !.font_size = value ] ]
    /\ UNCHANGED <<flags, node, rec>>

\* a node of the graph is dragged on its own
dragNode(n, deltax, deltay) ==
    /\ Call("dragNode", 0, <<n, deltax, deltay>>)
    /\ node' = [ node EXCEPT ![n].pos = <<@[1] + deltax, @[2] + deltay>> ]
    /\ UNCHANGED <<group, flags, rec>>

\* ------------------------------------------------ the calls explored
ResizeArgs == { <<1000, 505>>, <<2000, 1200>> }
MoveArgs == { <<105, -200>>, <<-300, 5>> }
NodeLists == { <<>>, <<1>>, <<2, 1>>, <<2, 2>> }
Paddings == { 100 }
SizeInputs == { <<500>>, <<1000, 505>>, <<2005, 1200>> }
Edits == { <<"title", "Outputs">>, <<"color", "#A88">>, <<"font_size", 0>>, <<"font_size", 10>> }
NodeDrags == { <<0, -200>> }

Next ==
    \/ \E g \in Groups : pin(g)
    \/ \E g \in Groups : unpin(g)
    \/ \E g \in Groups, a \in ResizeArgs : resize(g, a[1], a[2])
    \/ \E g \in Groups, d \in MoveArgs, ignore_nodes \in BOOLEAN : move(g, d[1], d[2], ignore_nodes)
    \/ \E g \in Groups : recomputeInsideNodes(g)
    \/ \E g \in Groups, nodes \in NodeLists, padding \in Paddings : addNodes(g, nodes, padding)
    \/ \E g \in Groups, v \in SizeInputs : assignSize(g, v)
    \/ \E g \in Groups : serialize(g)
    \/ \E g \in Groups, o \in Records : configure(g, o)
    \/ \E g \in Groups, e \in Edits : setProperty(g, e[1], e[2])
    \/ \E n \in NodeIds, d \in NodeDrags : dragNode(n, d[1], d[2])

Spec == Init /\ [][Next]_vars

\* ------------------------------------- the fitting of addNodes on its own
\* Nodes of the four kinds addNodes distinguishes, placed in or beside the
\* default rectangle of a new group.
FitNodeKinds ==
    { [ pos |-> <<1000, 1000>>, size |-> <<800, 400>>, type |-> "basic/sum",
        collapsed |-> FALSE, collapsed_width |-> 0 ],
      [ pos |-> <<200, 205>>, size |-> <<500, 300>>, type |-> "Reroute",
        collapsed |-> FALSE, collapsed_width |-> 0 ],
      [ pos |-> <<-300, 1200>>, size |-> <<900, 2000>>, type |-> "basic/sum",
        collapsed |-> TRUE, collapsed_width |-> 0 ],
      [ pos |-> <<1200, 300>>, size |-> <<3000, 700>>, type |-> "basic/sum",
        collapsed |-> TRUE, collapsed_width |-> 1605 ] }

FitGroups == { 1 }
FitNodeLists == { <<>>, <<1>>, <<2>>, <<1, 2>> }
FitPaddings == { 0, 100 }
FitEdits == { <<"font_size", 0>>, <<"font_size", 10>> }

InitFit ==
    /\ group = [ g \in Groups |-> ctor("", g) ]
    /\ flags = [ f \in Groups |-> FALSE ]
    /\ node \in [ NodeIds -> FitNodeKinds ]
    /\ rec = <<>>
    /\ last = NoCall
    /\ prev = [ group |-> group, flags |-> flags, node |-> node, rec |-> rec, last |-> NoCall ]
    /\ steps = 0

NextFit ==
    \/ \E g \in FitGroups : pin(g)
    \/ \E g \in FitGroups : unpin(g)
    \/ \E g \in FitGroups : recomputeInsideNodes(g)
    \/ \E g \in FitGroups, nodes \in FitNodeLists, padding \in FitPaddings : addNodes(g, nodes, padding)
    \/ \E g \in FitGroups, e \in FitEdits : setProperty(g, e[1], e[2])

SpecFit == InitFit /\ [][NextFit]_vars

\* ================================================================ claims
Range(seq) == { seq[i] : i \in DOMAIN seq }

SetMin(S) == CHOOSE m \in S : \A e \in S : m <= e

SetMax(S) == CHOOSE m \in S : \A e \in S : m >= e

\* the group of the last call was pinned when the call was made
WasPinned == last.g \in Groups /\ pinnedIn(prev.group, prev.flags, last.g)

\* C1: pin() leaves the group pinned, and a move or resize call made on a
\* group while it is pinned leaves the position and size of every group, the
\* position of every node and the pin flag as they were, so any number of
\* such calls changes nothing until unpin.
C1_PinnedMoveResizeNoOp ==
    /\ last.op = "pin" => pinned(last.g)
    /\ (last.op \in {"move", "resize"} /\ WasPinned) =>
          /\ \A g \in Groups : group[g].bounding = prev.group[g].bounding
          /\ \A n \in NodeIds : node[n].pos = prev.node[n].pos
          /\ flags = prev.flags
          /\ pinned(last.g)

\* a move that would drag a member was made on a pinned group
C1_Witness ==
    /\ last.op = "move"
    /\ WasPinned
    /\ last.arg[3] = FALSE
    /\ group[last.g].nodes # <<>>

\* C2: move(dx, dy, false) on an unpinned group adds (dx, dy) to the group's
\* position and to the position of exactly the nodes of the member list,
\* which only recomputeInsideNodes changes; every other node keeps its
\* position, also one that overlaps the group's rectangle, and the size of
\* the group is unchanged.
C2_MoveDragsCachedMembers ==
    /\ (last.op = "move" /\ ~WasPinned /\ last.arg[3] = FALSE) =>
          LET g == last.g
              dx == last.arg[1]
              dy == last.arg[2]
              b == prev.group[g].bounding
              members == Range(prev.group[g].nodes)
          IN  /\ group[g].bounding = <<Plus(b[1], dx), Plus(b[2], dy), b[3], b[4]>>
              /\ \A n \in NodeIds :
                    /\ node[n].pos = IF n \in members
                                     THEN <<prev.node[n].pos[1] + dx, prev.node[n].pos[2] + dy>>
                                     ELSE prev.node[n].pos
                    /\ node[n].size = prev.node[n].size
    /\ last.op # "recomputeInsideNodes" =>
          \A g \in Groups : group[g].nodes = prev.group[g].nodes

\* a move dragged a member while another node, not a member, overlapped the
\* group's rectangle
C2_Witness ==
    /\ last.op = "move"
    /\ ~WasPinned
    /\ last.arg[3] = FALSE
    /\ prev.group[last.g].nodes # <<>>
    /\ \E n \in NodeIds :
          /\ n \notin Range(prev.group[last.g].nodes)
          /\ overlapBounding(prev.group[last.g].bounding, getBounding(prev.node[n]))
          /\ node[n].pos = prev.node[n].pos

\* C3: addNodes([], padding) on a group whose member list is empty leaves the
\* group's position and size as they were.
C3_FitNothingIsNoOp ==
    (last.op = "addNodes" /\ last.arg[1] = <<>> /\ prev.group[last.g].nodes = <<>>) =>
        group[last.g].bounding = prev.group[last.g].bounding

\* the case of C4: no members, the one node given is plain, not collapsed, at
\* (100,100) with size (80,40), and the padding is 10
C4_Case ==
    /\ last.op = "addNodes"
    /\ last.arg = << <<1>>, 100 >>
    /\ prev.group[last.g].nodes = <<>>
    /\ prev.node[1].pos = <<1000, 1000>>
    /\ prev.node[1].size = <<800, 400>>
    /\ prev.node[1].type # "Reroute"
    /\ ~prev.node[1].collapsed

\* C4 as stated: the group ends at (100-10, 100-H-10) with size (80+20, 40+H+20).
C4_FitSingleNodeAsStated ==
    C4_Case =>
        group[last.g].bounding =
            << 1000 - 100, 1000 - NODE_TITLE_HEIGHT - 100,
               800 + 200, 400 + NODE_TITLE_HEIGHT + 200 >>

\* C4 amended: the group ends at (100-10, 100-H-10-t) with size
\* (max(140, 80+20), max(80, 40+H+20+t)), t being 1.4 times the group's font size.
C4_FitSingleNode ==
    C4_Case =>
        LET t == prev.group[last.g].font_size * 14
        IN  group[last.g].bounding =
                << 1000 - 100, 1000 - NODE_TITLE_HEIGHT - 100 - t,
                   IF 800 + 200 > 1400 THEN 800 + 200 ELSE 1400,
                   IF 400 + NODE_TITLE_HEIGHT + 200 + t > 800
                   THEN 400 + NODE_TITLE_HEIGHT + 200 + t ELSE 800 >>

\* the case of C4 on a group with a title bar
C4_Witness == C4_Case /\ prev.group[last.g].font_size # 0

\* C5: an assignment of (w, h) to size stores (max(140, w), max(80, h)), and
\* the size addNodes leaves has width >= 140 and height >= 80.
C5_SizeSetterClamps ==
    /\ (last.op = "size" /\ Len(last.arg) >= 2) =>
          /\ group[last.g].bounding[3] = (IF last.arg[1] > 1400 THEN last.arg[1] ELSE 1400)
          /\ group[last.g].bounding[4] = (IF last.arg[2] > 800 THEN last.arg[2] ELSE 800)
          /\ group[last.g].bounding[1] = prev.group[last.g].bounding[1]
          /\ group[last.g].bounding[2] = prev.group[last.g].bounding[2]
    /\ last.op \in {"size", "addNodes"} /\ group[last.g].bounding # prev.group[last.g].bounding =>
          /\ group[last.g].bounding[3] >= 1400
          /\ group[last.g].bounding[4] >= 800

\* a size below both minimums was assigned to a group that was smaller still
C5_Witness ==
    /\ last.op = "size"
    /\ last.arg = <<1000, 505>>
    /\ prev.group[last.g].bounding[3] < 1400
    /\ group[last.g].bounding[3] = 1400
    /\ group[last.g].bounding[4] = 800

\* C6: after recomputeInsideNodes the member list is the graph's node list
\* restricted to the nodes whose bounding box overlaps the group's, whatever
\* the list held before, and no node has changed.
C6_RecomputeIsExact ==
    last.op = "recomputeInsideNodes" =>
        LET b == prev.group[last.g].bounding
            Overlaps(n) == overlapBounding(b, getBounding(prev.node[n]))
        IN  /\ group[last.g].nodes = SelectSeq(graph_nodes, Overlaps)
            /\ node = prev.node

\* a recomputation on a non-empty member list that found both nodes
C6_Witness ==
    /\ last.op = "recomputeInsideNodes"
    /\ prev.group[last.g].nodes # <<>>
    /\ Len(group[last.g].nodes) = 2

\* configure was called with the record the call before it got from serialize
RoundTrip ==
    /\ last.op = "configure"
    /\ prev.last.op = "serialize"
    /\ prev.rec # <<>>
    /\ last.arg[1] = prev.rec[1]

\* v is s rounded to an integer
IsRounded(v, s) ==
    IF s = Infinity \/ s = -Infinity THEN v = s
    ELSE v % 10 = 0 /\ v - s <= 5 /\ s - v < 5

\* C7: configure(serialize(g)) gives the loading group g's title, color, pin
\* flag and the four bounding values rounded to integers; g's font size when
\* it is not 0, and the loading group's own font size when the record's is 0.
C7_RoundTrip ==
    RoundTrip =>
        LET src == prev.group[prev.last.g]
            dst == group[last.g]
        IN  /\ dst.title = src.title
            /\ dst.color = src.color
            /\ pinned(last.g) = pinnedIn(prev.group, prev.flags, prev.last.g)
            /\ \A i \in 1..4 : IsRounded(dst.bounding[i], src.bounding[i])
            /\ src.font_size # 0 => dst.font_size = src.font_size
            /\ last.arg[1].font_size = 0 => dst.font_size = prev.group[last.g].font_size

\* a round trip into another group, of a fractional bounding value
C7_Witness ==
    /\ RoundTrip
    /\ last.g # prev.last.g
    /\ group[last.g].bounding # prev.group[prev.last.g].bounding
    /\ group[last.g].title # prev.group[last.g].title

\* C8: for a non-empty combined list (members, then the nodes given) addNodes
\* leaves position (L - padding, T - padding - titleHeight) and size
\* (max(140, R - L + 2 padding), max(80, B - T + 2 padding + titleHeight)),
\* L, T, R, B being the extremes of the nodes' edges as the claim defines
\* them, whether the group is pinned or not.
C8_FitAround ==
    (last.op = "addNodes" /\ prev.group[last.g].nodes \o last.arg[1] # <<>>) =>
        LET gr == prev.group[last.g]
            all == Range(gr.nodes \o last.arg[1])
            padding == last.arg[2]
            t == gr.font_size * 14
            X(n) == prev.node[n].pos[1]
            Y(n) == prev.node[n].pos[2]
            Top(n) == IF prev.node[n].type = "Reroute" THEN Y(n) ELSE Y(n) - NODE_TITLE_HEIGHT
            Bottom(n) == IF prev.node[n].collapsed THEN Top(n) + NODE_TITLE_HEIGHT
                         ELSE Y(n) + prev.node[n].size[2]
            Right(n) == IF prev.node[n].collapsed /\ prev.node[n].collapsed_width # 0
                        THEN X(n) + MathRound(prev.node[n].collapsed_width)
                        ELSE X(n) + prev.node[n].size[1]
            L == SetMin({ X(n) : n \in all })
            T == SetMin({ Top(n) : n \in all })
            R == SetMax({ Right(n) : n \in all })
            B == SetMax({ Bottom(n) : n \in all })
            w == R - L + 2 * padding
            h == B - T + 2 * padding + t
        IN  group[last.g].bounding =
                << L - padding, T - padding - t,
                   IF w > 1400 THEN w ELSE 1400, IF h > 800 THEN h ELSE 800 >>

\* a pinned group with a member was fitted around a collapsed node, tall in
\* its nominal size, as well
C8_Witness ==
    /\ last.op = "addNodes"
    /\ WasPinned
    /\ prev.group[last.g].nodes # <<>>
    /\ \E n \in Range(last.arg[1]) :
          /\ prev.node[n].collapsed
          /\ prev.node[n].size[2] > NODE_TITLE_HEIGHT
          /\ n \notin Range(prev.group[last.g].nodes)
    /\ group[last.g].bounding[1] # prev.group[last.g].bounding[1]

\* C9: resize(w, h) on an unpinned group stores (w, h) as the size, unclamped,
\* and leaves the position.
C9_ResizeStoresUnclamped ==
    (last.op = "resize" /\ ~WasPinned) =>
        group[last.g].bounding =
            << prev.group[last.g].bounding[1], prev.group[last.g].bounding[2],
               last.arg[1], last.arg[2] >>

\* resize left a group narrower than 140 and lower than 80
C9_Witness ==
    /\ last.op = "resize"
    /\ ~WasPinned
    /\ group[last.g].bounding[3] < 1400
    /\ group[last.g].bounding[4] < 800

\* C10: pin and unpin on a group change neither the flags held in a record
\* that serialize returned earlier nor whether another group is pinned.
C10_PinStateIsPrivate ==
    last.op \in {"pin", "unpin"} =>
        /\ \A i \in DOMAIN rec : flags[rec[i].flags] = prev.flags[prev.rec[i].flags]
        /\ \A g \in Groups \ {last.g} : pinned(g) = pinnedIn(prev.group, prev.flags, g)
====
